---- MODULE Spec2Model ----
(***************************************************************************)
(* A model of the string analysis service of src/Server.js: the analyzer   *)
(* (analyzeString), the store (an insertion-ordered Map keyed by the       *)
(* SHA-256 digest of the value, rewritten to one JSON file on every        *)
(* mutation), the Express routes in their registration order, and the      *)
(* natural-language filter translator.                                     *)
(*                                                                         *)
(* A JavaScript string is a sequence of UTF-16 code units, written here as *)
(* a sequence of their numeric values (114 is "r", 32 is " ", 55357 and    *)
(* 56832 are the surrogate pair of U+1F600).                               *)
(***************************************************************************)
EXTENDS Integers, Sequences, FiniteSets, TLC

VARIABLES store, file, request, response

vars == <<store, file, request, response>>

(***************************************************************************)
(* Bounds of the model.                                                    *)
(***************************************************************************)
\* longest input string of the analyzer's own specification
MaxLen == 3
\* most entries the store holds before POST of a new value is no longer tried
MaxRecords == 2
\* longest list of entries in a data file loadData is started on
MaxItems == 3
\* most phrases in a query given to parseNaturalLanguageQuery
MaxPhrases == 2

(***************************************************************************)
(* JavaScript string primitives.                                           *)
(***************************************************************************)
Range(s) == {s[i] : i \in 1..Len(s)}

IsHighSurrogate(u) == u >= 55296 /\ u <= 56319

IsLowSurrogate(u) == u >= 56320 /\ u <= 57343

\* [...s]: the string iterator yields code points; a high surrogate followed by
\* a low surrogate is one code point, any other code unit is one on its own.
RECURSIVE CodePoints(_)
CodePoints(s) ==
  IF s = <<>> THEN <<>>
  ELSE IF Len(s) >= 2 /\ IsHighSurrogate(s[1]) /\ IsLowSurrogate(s[2])
       THEN <<SubSeq(s, 1, 2)>> \o CodePoints(SubSeq(s, 3, Len(s)))
       ELSE <<SubSeq(s, 1, 1)>> \o CodePoints(Tail(s))

\* Array.prototype.reverse
RECURSIVE Reverse(_)
Reverse(a) ==
  IF a = <<>> THEN <<>> ELSE Reverse(Tail(a)) \o <<Head(a)>>

\* Array.prototype.join('') of an array of strings
RECURSIVE Join(_)
Join(a) ==
  IF a = <<>> THEN <<>> ELSE Head(a) \o Join(Tail(a))

\* the code units the regular expression class \s and String.prototype.trim
\* treat as white space (WhiteSpace and LineTerminator of ECMAScript)
WhiteSpace ==
  {9, 10, 11, 12, 13, 32, 160, 5760, 8232, 8233, 8239, 8287, 12288, 65279}
    \cup (8192..8202)

IsSpace(u) == u \in WhiteSpace

\* the length of the run of white space s starts with
RECURSIVE SpaceRun(_)
SpaceRun(s) ==
  IF s # <<>> /\ IsSpace(Head(s)) THEN 1 + SpaceRun(Tail(s)) ELSE 0

\* s.replace(/\s+/g, ''): every maximal run of white space is replaced by ''
RECURSIVE ReplaceSpaceRuns(_)
ReplaceSpaceRuns(s) ==
  IF s = <<>> THEN <<>>
  ELSE IF SpaceRun(s) > 0
       THEN ReplaceSpaceRuns(SubSeq(s, SpaceRun(s) + 1, Len(s)))
       ELSE <<Head(s)>> \o ReplaceSpaceRuns(Tail(s))

\* String.prototype.toLowerCase on one code unit; the letters of the model are
\* ASCII, where it adds 32 to A..Z and leaves every other unit alone
LowerUnit(u) == IF u >= 65 /\ u <= 90 THEN u + 32 ELSE u

toLowerCase(s) == [i \in 1..Len(s) |-> LowerUnit(s[i])]

\* String.prototype.trim
RECURSIVE TrimStart(_)
TrimStart(s) ==
  IF s # <<>> /\ IsSpace(Head(s)) THEN TrimStart(Tail(s)) ELSE s

trim(s) == Reverse(TrimStart(Reverse(TrimStart(s))))

\* s.split(/\s+/).length for a string that neither starts nor ends with white
\* space: one more than the number of maximal runs of white space
RECURSIVE SplitSpaceCount(_)
SplitSpaceCount(s) ==
  IF s = <<>> THEN 1
  ELSE IF SpaceRun(s) > 0
       THEN 1 + SplitSpaceCount(SubSeq(s, SpaceRun(s) + 1, Len(s)))
       ELSE SplitSpaceCount(Tail(s))

(***************************************************************************)
(* UTF-8, as hash.update(string) encodes its argument: a surrogate that is *)
(* not part of a pair is encoded as U+FFFD (EF BF BD).                     *)
(***************************************************************************)
CodePointValue(cp) ==
  IF Len(cp) = 2 THEN 65536 + (cp[1] - 55296) * 1024 + (cp[2] - 56320)
  ELSE cp[1]

IsLoneSurrogate(cp) ==
  Len(cp) = 1 /\ (IsHighSurrogate(cp[1]) \/ IsLowSurrogate(cp[1]))

Utf8OfScalar(n) ==
  IF n < 128 THEN <<n>>
  ELSE IF n < 2048 THEN <<192 + (n \div 64), 128 + (n % 64)>>
  ELSE IF n < 65536
       THEN <<224 + (n \div 4096), 128 + ((n \div 64) % 64), 128 + (n % 64)>>
       ELSE <<240 + (n \div 262144), 128 + ((n \div 4096) % 64),
              128 + ((n \div 64) % 64), 128 + (n % 64)>>

RECURSIVE Utf8OfCodePoints(_)
Utf8OfCodePoints(cps) ==
  IF cps = <<>> THEN <<>>
  ELSE (IF IsLoneSurrogate(Head(cps)) THEN <<239, 191, 189>>
        ELSE Utf8OfScalar(CodePointValue(Head(cps))))
       \o Utf8OfCodePoints(Tail(cps))

Utf8(s) == Utf8OfCodePoints(CodePoints(s))

\* sha256(value): the digest of the UTF-8 bytes of the value.  SHA-256 is taken
\* to be collision free, so the digest is written as the bytes it was computed
\* from: two values have the same digest exactly when their bytes are the same.
sha256(value) == Utf8(value)

(***************************************************************************)
(* analyzeString                                                           *)
(***************************************************************************)
\* the loop frequency[ch] = (frequency[ch] || 0) + 1 over [...value]
character_frequency_map(value) ==
  LET characters == CodePoints(value)
  IN  [ch \in Range(characters) |->
         Cardinality({i \in 1..Len(characters) : characters[i] = ch})]

is_palindrome_by_code_unit(value) ==
  LET normalized == toLowerCase(ReplaceSpaceRuns(value))
  IN  normalized = Reverse(normalized)

is_palindrome(value) ==
  LET normalized == toLowerCase(ReplaceSpaceRuns(value))
  IN  normalized = Join(Reverse(CodePoints(normalized)))

word_count(value) ==
  IF trim(value) = <<>> THEN 0 ELSE SplitSpaceCount(trim(value))

analyzeString(value) ==
  [length |-> Len(CodePoints(value)),
   is_palindrome |-> is_palindrome(value),
   unique_characters |-> Cardinality(DOMAIN character_frequency_map(value)),
   word_count |-> word_count(value),
   sha256_hash |-> sha256(value),
   character_frequency_map |-> character_frequency_map(value)]

(***************************************************************************)
(* encodeURIComponent and decodeURIComponent.  A result is                 *)
(* [err |-> FALSE, val |-> string], or [err |-> TRUE] for a thrown         *)
(* URIError.                                                               *)
(***************************************************************************)
Ok(s) == [err |-> FALSE, val |-> s]

Thrown == [err |-> TRUE]

\* r with the code units `units` put in front of its string
Cons(units, r) == IF r.err THEN r ELSE Ok(units \o r.val)

\* A-Z a-z 0-9 - _ . ! ~ * ' ( )
IsUriUnreserved(u) ==
  \/ u >= 65 /\ u <= 90
  \/ u >= 97 /\ u <= 122
  \/ u >= 48 /\ u <= 57
  \/ u \in {45, 95, 46, 33, 126, 42, 39, 40, 41}

HexDigit(n) == IF n < 10 THEN 48 + n ELSE 55 + n

HexValue(u) ==
  IF u >= 48 /\ u <= 57 THEN u - 48
  ELSE IF u >= 65 /\ u <= 70 THEN u - 55
  ELSE IF u >= 97 /\ u <= 102 THEN u - 87
  ELSE -1

RECURSIVE PercentEscape(_)
PercentEscape(bytes) ==
  IF bytes = <<>> THEN <<>>
  ELSE <<37, HexDigit(Head(bytes) \div 16), HexDigit(Head(bytes) % 16)>>
       \o PercentEscape(Tail(bytes))

RECURSIVE EncodeCodePoints(_)
EncodeCodePoints(cps) ==
  IF cps = <<>> THEN Ok(<<>>)
  ELSE IF IsLoneSurrogate(Head(cps)) THEN Thrown
  ELSE IF Len(Head(cps)) = 1 /\ IsUriUnreserved(Head(cps)[1])
       THEN Cons(Head(cps), EncodeCodePoints(Tail(cps)))
       ELSE Cons(PercentEscape(Utf8OfScalar(CodePointValue(Head(cps)))),
                 EncodeCodePoints(Tail(cps)))

\* what a client does to put a value in a path segment
encodeURIComponent(s) == EncodeCodePoints(CodePoints(s))

\* the octet the escape %XX at position k of s stands for, -1 when there is no
\* well-formed escape there
Octet(s, k) ==
  IF k + 2 <= Len(s) /\ s[k] = 37 /\ HexValue(s[k + 1]) >= 0
     /\ HexValue(s[k + 2]) >= 0
  THEN 16 * HexValue(s[k + 1]) + HexValue(s[k + 2])
  ELSE -1

\* the number of octets of the UTF-8 sequence that starts with octet b (0: none)
Utf8Length(b) ==
  IF b >= 192 /\ b <= 223 THEN 2
  ELSE IF b >= 224 /\ b <= 239 THEN 3
  ELSE IF b >= 240 /\ b <= 247 THEN 4
  ELSE 0

IsContinuation(b) == b >= 128 /\ b <= 191

\* the scalar value of the n-octet sequence escaped at the start of s, -1 when
\* the octets are not the UTF-8 encoding of a code point
Utf8Scalar(s, n) ==
  LET b(j) == Octet(s, 3 * j + 1)
      v == IF n = 2 THEN (b(0) - 192) * 64 + (b(1) - 128)
           ELSE IF n = 3
                THEN (b(0) - 224) * 4096 + (b(1) - 128) * 64 + (b(2) - 128)
                ELSE (b(0) - 240) * 262144 + (b(1) - 128) * 4096
                     + (b(2) - 128) * 64 + (b(3) - 128)
      least == IF n = 2 THEN 128 ELSE IF n = 3 THEN 2048 ELSE 65536
  IN  IF \A j \in 1..(n - 1) : IsContinuation(b(j))
      THEN IF v >= least /\ v <= 1114111 /\ ~(v >= 55296 /\ v <= 57343)
           THEN v ELSE -1
      ELSE -1

\* the UTF-16 code units of a scalar value
Utf16OfScalar(v) ==
  IF v < 65536 THEN <<v>>
  ELSE <<55296 + ((v - 65536) \div 1024), 56320 + ((v - 65536) % 1024)>>

RECURSIVE decodeURIComponent(_)
decodeURIComponent(s) ==
  IF s = <<>> THEN Ok(<<>>)
  ELSE IF Head(s) # 37 THEN Cons(<<Head(s)>>, decodeURIComponent(Tail(s)))
  ELSE IF Octet(s, 1) < 0 THEN Thrown
  ELSE IF Octet(s, 1) < 128
       THEN Cons(<<Octet(s, 1)>>, decodeURIComponent(SubSeq(s, 4, Len(s))))
  ELSE IF Utf8Length(Octet(s, 1)) = 0 THEN Thrown
  ELSE IF Utf8Scalar(s, Utf8Length(Octet(s, 1))) < 0 THEN Thrown
  ELSE Cons(Utf16OfScalar(Utf8Scalar(s, Utf8Length(Octet(s, 1)))),
            decodeURIComponent(
              SubSeq(s, 3 * Utf8Length(Octet(s, 1)) + 1, Len(s))))

(***************************************************************************)
(* JavaScript values, as far as the data file can hold them.  A value is a *)
(* record tagged by its type in the field t; a Record of the service is an *)
(* object with the fields id, value, properties and created_at.            *)
(***************************************************************************)
Undefined == [t |-> "undefined"]

Null == [t |-> "null"]

Num(n) == [t |-> "number", n |-> n]

NaN == [t |-> "number", nan |-> TRUE]

Str(s) == [t |-> "string", s |-> s]

Arr(items) == [t |-> "array", items |-> items]

\* an object that has none of the properties the service reads
EmptyObject == [t |-> "object", props |-> "none"]

\* x.id: a TypeError (thrown |-> TRUE) for null and undefined, the property
\* for a Record, undefined for any other value
PropertyId(x) ==
  IF x.t \in {"null", "undefined"} THEN [thrown |-> TRUE]
  ELSE IF x.t = "object" /\ "id" \in DOMAIN x
       THEN [thrown |-> FALSE, val |-> Str(x.id)]
       ELSE [thrown |-> FALSE, val |-> Undefined]

(***************************************************************************)
(* The store: a Map, which keeps its entries in insertion order.           *)
(***************************************************************************)
EmptyMap == <<>>

MapHas(m, k) == \E i \in 1..Len(m) : m[i].key = k

MapGet(m, k) ==
  IF MapHas(m, k)
  THEN m[CHOOSE i \in 1..Len(m) : m[i].key = k].value
  ELSE Undefined

\* Map.prototype.set: the entry of an existing key keeps its place
MapSet(m, k, v) ==
  IF MapHas(m, k)
  THEN [i \in 1..Len(m) |->
          IF m[i].key = k THEN [key |-> k, value |-> v] ELSE m[i]]
  ELSE Append(m, [key |-> k, value |-> v])

MapDelete(m, k) == SelectSeq(m, LAMBDA e : e.key # k)

\* Array.from(store.values())
MapValues(m) == [i \in 1..Len(m) |-> m[i].value]

MapKeys(m) == {m[i].key : i \in 1..Len(m)}

(***************************************************************************)
(* The data file.  Its text is either the JSON text of a value or text     *)
(* JSON.parse rejects.                                                     *)
(***************************************************************************)
NoFile == [exists |-> FALSE]

FileOf(text) == [exists |-> TRUE, text |-> text]

Unparseable == [syntax |-> "invalid"]

JSONstringify(v) == [syntax |-> "json", doc |-> v]

JSONparse(text) ==
  IF text.syntax = "json" THEN [thrown |-> FALSE, val |-> text.doc]
  ELSE [thrown |-> TRUE]

\* the values for...of yields for `data`; a value that is not iterable throws
Iterate(data) ==
  IF data.t = "array" THEN [thrown |-> FALSE, val |-> data.items]
  ELSE IF data.t = "string"
       THEN [thrown |-> FALSE,
             val |-> [i \in 1..Len(CodePoints(data.s)) |->
                        Str(CodePoints(data.s)[i])]]
       ELSE [thrown |-> TRUE]

\* for (const record of data) store.set(record.id, record): an entry whose id
\* cannot be read throws out of the loop, the entries set before it stay
RECURSIVE LoadLoop(_, _)
LoadLoop(items, m) ==
  IF items = <<>> THEN m
  ELSE IF PropertyId(Head(items)).thrown THEN m
  ELSE LoadLoop(Tail(items), MapSet(m, PropertyId(Head(items)).val, Head(items)))

\* loadData(), run on the store m with the data file f
loadData(f, m) ==
  IF ~f.exists THEN m
  ELSE IF JSONparse(f.text).thrown THEN m
  ELSE IF Iterate(JSONparse(f.text).val).thrown THEN m
  ELSE LoadLoop(Iterate(JSONparse(f.text).val).val, m)

\* saveData(): the file the store m is written to (writeFileSync is taken to
\* succeed)
saveData(m) == FileOf(JSONstringify(Arr(MapValues(m))))

(***************************************************************************)
(* parseInt(string): leading white space, an optional sign, an optional    *)
(* 0x prefix, then the longest run of digits; NaN when there is none.      *)
(***************************************************************************)
DigitValue(u, radix) ==
  IF HexValue(u) >= 0 /\ HexValue(u) < radix THEN HexValue(u) ELSE -1

\* the value of the longest run of digits s starts with, after `acc`;
\* -1 when s starts with no digit and nothing was read before
RECURSIVE ReadDigits(_, _, _, _)
ReadDigits(s, radix, acc, any) ==
  IF s # <<>> /\ DigitValue(Head(s), radix) >= 0
  THEN ReadDigits(Tail(s), radix, acc * radix + DigitValue(Head(s), radix), TRUE)
  ELSE IF any THEN acc ELSE -1

parseInt(str) ==
  LET s0 == TrimStart(str)
      neg == s0 # <<>> /\ Head(s0) = 45
      s1 == IF s0 # <<>> /\ Head(s0) \in {43, 45} THEN Tail(s0) ELSE s0
      hex == Len(s1) >= 2 /\ s1[1] = 48 /\ s1[2] \in {120, 88}
      s2 == IF hex THEN SubSeq(s1, 3, Len(s1)) ELSE s1
      n == ReadDigits(s2, IF hex THEN 16 ELSE 10, 0, FALSE)
  IN  IF n < 0 THEN NaN ELSE Num(IF neg THEN 0 - n ELSE n)

\* x + 1 for a number x
PlusOne(x) == IF "nan" \in DOMAIN x THEN NaN ELSE Num(x.n + 1)

\* a >= b, a <= b and a === b for a number a of the model and a parsed
\* number b: every comparison with NaN is false
GreaterEq(a, b) == "n" \in DOMAIN b /\ a >= b.n

LessEq(a, b) == "n" \in DOMAIN b /\ a <= b.n

StrictEq(a, b) == "n" \in DOMAIN b /\ a = b.n

(***************************************************************************)
(* The route handlers.  A handler returns the store and the data file it   *)
(* leaves and the response it sends.                                       *)
(***************************************************************************)
Answer(m, f, r) == [store |-> m, file |-> f, response |-> r]

Error(status, message) == [status |-> status, error |-> message]

\* the record POST /strings builds
NewRecord(value, properties, now) ==
  [t |-> "object",
   id |-> properties.sha256_hash,
   value |-> value,
   properties |-> properties,
   created_at |-> now]

\* store.set(id, record); saveData(); res.status(201).json(record)
Created(m, record) == Answer(m, saveData(m), [status |-> 201, record |-> record])

\* saveData() run before store.set(id, record)
PostRecordSaveBeforeSet(m, f, record) ==
  IF MapHas(m, Str(record.id))
  THEN Answer(m, f, Error(409, "String already exists"))
  ELSE Answer(MapSet(m, Str(record.id), record), saveData(m),
              [status |-> 201, record |-> record])

\* the handler from store.has(id) on
PostRecord(m, f, record) ==
  IF MapHas(m, Str(record.id))
  THEN Answer(m, f, Error(409, "String already exists"))
  ELSE Created(MapSet(m, Str(record.id), record), record)

\* app.post('/strings'): body is req.body, now is what new Date() returns
postStrings(m, f, body, now) ==
  IF body.t = "undefined" \/ body.value.t = "undefined"
  THEN Answer(m, f, Error(400, "Missing \"value\" field"))
  ELSE IF body.value.t # "string"
  THEN Answer(m, f, Error(422, "\"value\" must be a string"))
  ELSE PostRecord(m, f, NewRecord(body.value.s, analyzeString(body.value.s), now))

\* a handler that throws: Express answers 500 and the process goes on
InternalServerError == [status |-> 500, thrown |-> "URIError"]

\* app.get('/strings/:string_value'): param is req.params.string_value
getStringValue(m, f, param) ==
  IF decodeURIComponent(param).err THEN Answer(m, f, InternalServerError)
  ELSE LET record == MapGet(m, Str(sha256(decodeURIComponent(param).val)))
       IN  IF record = Undefined
           THEN Answer(m, f, Error(404, "String not found"))
           ELSE Answer(m, f, [status |-> 200, record |-> record])

\* saveData() run before the store.has(id) check
deleteStringValueSaveFirst(m, f, param) ==
  IF decodeURIComponent(param).err THEN Answer(m, f, InternalServerError)
  ELSE IF ~MapHas(m, Str(sha256(decodeURIComponent(param).val)))
       THEN Answer(m, saveData(m), Error(404, "String not found"))
       ELSE Answer(MapDelete(m, Str(sha256(decodeURIComponent(param).val))),
                   saveData(MapDelete(m, Str(sha256(decodeURIComponent(param).val)))),
                   [status |-> 204])

\* app.delete('/strings/:string_value')
deleteStringValue(m, f, param) ==
  IF decodeURIComponent(param).err THEN Answer(m, f, InternalServerError)
  ELSE LET id == Str(sha256(decodeURIComponent(param).val))
       IN  IF ~MapHas(m, id)
           THEN Answer(m, f, Error(404, "String not found"))
           ELSE Answer(MapDelete(m, id), saveData(MapDelete(m, id)),
                       [status |-> 204])

\* the property names every object inherits from Object.prototype
ObjectPrototypeKeys ==
  {<<99, 111, 110, 115, 116, 114, 117, 99, 116, 111, 114>>,
   <<95, 95, 100, 101, 102, 105, 110, 101, 71, 101, 116, 116, 101, 114, 95, 95>>,
   <<95, 95, 100, 101, 102, 105, 110, 101, 83, 101, 116, 116, 101, 114, 95, 95>>,
   <<104, 97, 115, 79, 119, 110, 80, 114, 111, 112, 101, 114, 116, 121>>,
   <<95, 95, 108, 111, 111, 107, 117, 112, 71, 101, 116, 116, 101, 114, 95, 95>>,
   <<95, 95, 108, 111, 111, 107, 117, 112, 83, 101, 116, 116, 101, 114, 95, 95>>,
   <<105, 115, 80, 114, 111, 116, 111, 116, 121, 112, 101, 79, 102>>,
   <<112, 114, 111, 112, 101, 114, 116, 121, 73, 115, 69, 110, 117, 109, 101, 114,
     97, 98, 108, 101>>,
   <<116, 111, 83, 116, 114, 105, 110, 103>>,
   <<118, 97, 108, 117, 101, 79, 102>>,
   <<95, 95, 112, 114, 111, 116, 111, 95, 95>>,
   <<116, 111, 76, 111, 99, 97, 108, 101, 83, 116, 114, 105, 110, 103>>}

\* whether character_frequency_map[key] is truthy: an own entry is a count of
\* at least one, an inherited property is a function or an object
FrequencyTruthy(map, key) ==
  key \in DOMAIN map \/ key \in ObjectPrototypeKeys

\* 'true' and '1'
TrueWords == {<<116, 114, 117, 101>>, <<49>>}

FilterIsPalindrome(results, q) ==
  IF "is_palindrome" \in DOMAIN q
  THEN SelectSeq(results, LAMBDA r :
         r.properties.is_palindrome = (q.is_palindrome \in TrueWords))
  ELSE results

FilterMinLengthExclusive(results, q) ==
  IF "min_length" \in DOMAIN q
  THEN SelectSeq(results, LAMBDA r :
         GreaterEq(r.properties.length, PlusOne(parseInt(q.min_length))))
  ELSE results

FilterMinLength(results, q) ==
  IF "min_length" \in DOMAIN q
  THEN SelectSeq(results, LAMBDA r :
         GreaterEq(r.properties.length, parseInt(q.min_length)))
  ELSE results

FilterMaxLength(results, q) ==
  IF "max_length" \in DOMAIN q
  THEN SelectSeq(results, LAMBDA r :
         LessEq(r.properties.length, parseInt(q.max_length)))
  ELSE results

FilterWordCount(results, q) ==
  IF "word_count" \in DOMAIN q
  THEN SelectSeq(results, LAMBDA r :
         StrictEq(r.properties.word_count, parseInt(q.word_count)))
  ELSE results

FilterContainsCharacter(results, q) ==
  IF "contains_character" \in DOMAIN q
  THEN SelectSeq(results, LAMBDA r :
         FrequencyTruthy(r.properties.character_frequency_map,
                         q.contains_character))
  ELSE results

\* the response of GET /strings
Listed(m, f, q, results) ==
  Answer(m, f, [status |-> 200, data |-> results, count |-> Len(results),
                filters_applied |-> q])

\* app.get('/strings'): q is req.query
getStrings(m, f, q) ==
  Listed(m, f, q,
    FilterContainsCharacter(
      FilterWordCount(
        FilterMaxLength(
          FilterMinLength(
            FilterIsPalindrome(MapValues(m), q), q), q), q), q))

(***************************************************************************)
(* parseNaturalLanguageQuery and its route.                                *)
(***************************************************************************)
\* whether pat occurs in s at position i
OccursAt(s, pat, i) ==
  i >= 1 /\ i + Len(pat) - 1 <= Len(s) /\ SubSeq(s, i, i + Len(pat) - 1) = pat

\* String.prototype.includes, and RegExp.prototype.test of a literal pattern
Includes(s, pat) == \E i \in 1..(Len(s) + 1) : OccursAt(s, pat, i)

\* 'palindrom', 'single word', 'first vowel', 'letter z'
PALINDROM == <<112, 97, 108, 105, 110, 100, 114, 111, 109>>

SINGLE_WORD == <<115, 105, 110, 103, 108, 101, 32, 119, 111, 114, 100>>

FIRST_VOWEL == <<102, 105, 114, 115, 116, 32, 118, 111, 119, 101, 108>>

LETTER_Z == <<108, 101, 116, 116, 101, 114, 32, 122>>

\* 'longer than ' and 'containing the letter '
LONGER_THAN == <<108, 111, 110, 103, 101, 114, 32, 116, 104, 97, 110, 32>>

CONTAINING_THE_LETTER ==
  <<99, 111, 110, 116, 97, 105, 110, 105, 110, 103, 32, 116, 104, 101, 32, 108,
    101, 116, 116, 101, 114, 32>>

\* the longest run of the code unit u that s starts with
RECURSIVE RunOf(_, _)
RunOf(s, u) ==
  IF s # <<>> /\ Head(s) = u THEN <<u>> \o RunOf(Tail(s), u) ELSE <<>>

\* q.match(/longer than (\\d+)/): in a regular expression literal \\ is a
\* backslash, so the pattern is 'longer than ', a backslash (92), and then one
\* or more letters d (100); the group captures the backslash and the letters.
\* The result is null or the captured string.
MatchLonger(q) ==
  LET hits == {i \in 1..Len(q) :
                 /\ OccursAt(q, LONGER_THAN \o <<92, 100>>, i)}
      first == CHOOSE i \in hits : \A j \in hits : i <= j
  IN  IF hits = {} THEN Null
      ELSE Str(<<92>> \o RunOf(SubSeq(q, first + Len(LONGER_THAN) + 1, Len(q)),
                               100))

\* q.match(/containing the letter ([a-z])/): null or the captured letter
MatchContaining(q) ==
  LET hits == {i \in 1..Len(q) :
                 /\ OccursAt(q, CONTAINING_THE_LETTER, i)
                 /\ i + Len(CONTAINING_THE_LETTER) <= Len(q)
                 /\ q[i + Len(CONTAINING_THE_LETTER)] >= 97
                 /\ q[i + Len(CONTAINING_THE_LETTER)] <= 122}
      first == CHOOSE i \in hits : \A j \in hits : i <= j
  IN  IF hits = {} THEN Null
      ELSE Str(<<q[first + Len(CONTAINING_THE_LETTER)]>>)

\* if (cond) filters[name] = v
SetIf(cond, filters, name, v) ==
  IF cond THEN (name :> v) @@ filters ELSE filters

\* the body of the function on q, the query in lower case: the six rules in
\* their order, each on the object the rules before it left
ParseLowered(q) ==
  SetIf(Includes(q, LETTER_Z),
    SetIf(Includes(q, FIRST_VOWEL),
      SetIf(MatchContaining(q) # Null,
        SetIf(MatchLonger(q) # Null,
          SetIf(Includes(q, SINGLE_WORD),
            SetIf(Includes(q, PALINDROM), <<>>, "is_palindrome", TRUE),
            "word_count", Num(1)),
          "min_length", PlusOne(parseInt(MatchLonger(q).s))),
        "contains_character", MatchContaining(q).s),
      "contains_character", <<97>>),
    "contains_character", <<122>>)

\* the object the function returns, a function from the names of the filters
\* it set to their values
parseNaturalLanguageQuery(query) == ParseLowered(toLowerCase(query))

\* the predicate of results.filter(...) in the natural-language route
MatchesParsed(r, parsed) ==
  LET p == r.properties
  IN  /\ ~("is_palindrome" \in DOMAIN parsed
            /\ p.is_palindrome # parsed.is_palindrome)
      /\ ~("word_count" \in DOMAIN parsed
            /\ ~StrictEq(p.word_count, parsed.word_count))
      /\ ~("min_length" \in DOMAIN parsed
            /\ "n" \in DOMAIN parsed.min_length
            /\ p.length < parsed.min_length.n)
      /\ ~("contains_character" \in DOMAIN parsed
            /\ parsed.contains_character # <<>>
            /\ ~FrequencyTruthy(p.character_frequency_map,
                                parsed.contains_character))

\* the 200 response of the natural-language route
Interpreted(m, f, query, parsed, results) ==
  Answer(m, f,
         [status |-> 200, data |-> results, count |-> Len(results),
          interpreted_query |-> [original |-> query, parsed_filters |-> parsed]])

ResultsOfParsed(m, f, query, parsed) ==
  Interpreted(m, f, query, parsed,
              SelectSeq(MapValues(m), LAMBDA r : MatchesParsed(r, parsed)))

\* app.get('/strings/filter-by-natural-language'): query is req.query.query,
\* a string or undefined
filterByNaturalLanguage(m, f, query) ==
  IF query.t = "undefined" \/ query.s = <<>>
  THEN Answer(m, f, Error(400, "Missing query"))
  ELSE ResultsOfParsed(m, f, query.s, parseNaturalLanguageQuery(query.s))

\* app.get('/')
health(m, f) == Answer(m, f, [status |-> 200, health |-> "ok"])

(***************************************************************************)
(* The Express router: the first route registered whose method and path    *)
(* match answers the request.  A request is                                *)
(* [method, path, query, body]: path is the request path as sent, query is *)
(* req.query (a function from the names of the parameters present to their *)
(* values), body is req.body.                                              *)
(***************************************************************************)
\* '/strings', '/strings/' and '/strings/filter-by-natural-language'
STRINGS == <<47, 115, 116, 114, 105, 110, 103, 115>>

STRINGS_SLASH == <<47, 115, 116, 114, 105, 110, 103, 115, 47>>

FILTER_BY_NATURAL_LANGUAGE ==
  <<47, 115, 116, 114, 105, 110, 103, 115, 47, 102, 105, 108, 116, 101, 114, 45,
    98, 121, 45, 110, 97, 116, 117, 114, 97, 108, 45, 108, 97, 110, 103, 117, 97,
    103, 101>>

\* a route without parameters matches its path, with or without a slash after
MatchesPath(path, route) == path = route \/ path = route \o <<47>>

\* what follows '/strings/' in the path, less one trailing slash
StringValueSegment(path) ==
  LET rest == SubSeq(path, Len(STRINGS_SLASH) + 1, Len(path))
  IN  IF rest # <<>> /\ rest[Len(rest)] = 47
      THEN SubSeq(rest, 1, Len(rest) - 1) ELSE rest

\* '/strings/:string_value' matches '/strings/', then one or more code units
\* other than '/', then at most one '/'
MatchesStringValue(path) ==
  /\ Len(path) > Len(STRINGS_SLASH)
  /\ SubSeq(path, 1, Len(STRINGS_SLASH)) = STRINGS_SLASH
  /\ StringValueSegment(path) # <<>>
  /\ 47 \notin Range(StringValueSegment(path))

\* the router decodes a path parameter with decodeURIComponent before the
\* handler sees it: req.params.string_value, or a thrown URIError
StringValueParam(path) == decodeURIComponent(StringValueSegment(path))

\* the router's answer when the parameter cannot be decoded
BadParam(m, f) == Answer(m, f, Error(400, "Failed to decode param"))

\* no route matched: Express answers 404 itself
NoRoute(m, f) == Answer(m, f, [status |-> 404, html |-> "Cannot"])

QueryParam(req, name) ==
  IF name \in DOMAIN req.query THEN Str(req.query[name]) ELSE Undefined

Dispatch(m, f, req, now) ==
  IF req.method = "POST" /\ MatchesPath(req.path, STRINGS)
  THEN postStrings(m, f, req.body, now)
  ELSE IF req.method = "GET" /\ MatchesStringValue(req.path)
  THEN (IF StringValueParam(req.path).err THEN BadParam(m, f)
        ELSE getStringValue(m, f, StringValueParam(req.path).val))
  ELSE IF req.method = "GET" /\ MatchesPath(req.path, STRINGS)
  THEN getStrings(m, f, req.query)
  ELSE IF req.method = "GET" /\ MatchesPath(req.path, FILTER_BY_NATURAL_LANGUAGE)
  THEN filterByNaturalLanguage(m, f, QueryParam(req, "query"))
  ELSE IF req.method = "DELETE" /\ MatchesStringValue(req.path)
  THEN (IF StringValueParam(req.path).err THEN BadParam(m, f)
        ELSE deleteStringValue(m, f, StringValueParam(req.path).val))
  ELSE IF req.method = "GET" /\ req.path = <<47>>
  THEN health(m, f)
  ELSE NoRoute(m, f)

(***************************************************************************)
(* The service: requests arrive one at a time (Node runs each handler to   *)
(* its end), and the process may be stopped and started again.             *)
(***************************************************************************)
\* the response of a request not yet answered
Pending == [pending |-> TRUE]

\* the values clients POST, GET and DELETE: '', 'r', 'R z', '%25', a lone
\* surrogate '\uD83D', and U+FFFD
Values ==
  {<<>>, <<114>>, <<82, 32, 122>>, <<37, 50, 53>>, <<55357>>, <<65533>>}

\* what new Date().toISOString() returns; the model runs in one instant
Now == "2025-01-01T00:00:00.000Z"

\* the request bodies of POST /strings: no body, a body without "value", a
\* value that is a number, and the string values
Bodies ==
  {Undefined, [t |-> "object", value |-> Undefined],
   [t |-> "object", value |-> Num(5)]}
    \cup {[t |-> "object", value |-> Str(v)] : v \in Values}

NoQuery == <<>>

\* a query parameter that is not sent
Absent == <<0 - 1>>

\* the query parameters of GET /strings: 'true', 'false', '1'; '1', '3'; '2';
\* '1'; 'r', ' '
QueryChoices ==
  [is_palindrome :
     {Absent, <<116, 114, 117, 101>>, <<102, 97, 108, 115, 101>>, <<49>>},
   min_length : {Absent, <<49>>, <<51>>},
   max_length : {Absent, <<50>>},
   word_count : {Absent, <<49>>},
   contains_character : {Absent, <<114>>, <<32>>}]

\* the few of them the service is sent between its other requests
FewQueryChoices ==
  {c \in QueryChoices :
     /\ c.is_palindrome \in {Absent, <<116, 114, 117, 101>>}
     /\ c.min_length \in {Absent, <<51>>}
     /\ c.max_length = Absent
     /\ c.word_count = Absent
     /\ c.contains_character \in {Absent, <<114>>}}

QueryOf(c) == [n \in {k \in DOMAIN c : c[k] # Absent} |-> c[n]]

\* 'strings longer than 3 containing the letter z'
SENTENCE ==
  <<115, 116, 114, 105, 110, 103, 115, 32, 108, 111, 110, 103, 101, 114, 32, 116,
    104, 97, 110, 32, 51, 32, 99, 111, 110, 116, 97, 105, 110, 105, 110, 103, 32,
    116, 104, 101, 32, 108, 101, 116, 116, 101, 114, 32, 122>>

\* the handler's answer a becomes the state and the response
Respond(a) ==
  /\ Len(a.store) <= MaxRecords
  /\ store' = a.store
  /\ file' = a.file
  /\ response' = a.response

\* the request is answered by the router; the store and the file are what the
\* handler leaves
Serve(req, now) == Respond(Dispatch(store, file, req, now))

PostStrings ==
  \E body \in Bodies :
    /\ request' = [op |-> "PostStrings", method |-> "POST", path |-> STRINGS,
                   query |-> NoQuery, body |-> body]
    /\ Serve(request', Now)

\* GET /strings/{value}: the client percent-encodes the value into the path
GetStringValue ==
  \E v \in Values :
    /\ ~encodeURIComponent(v).err
    /\ request' = [op |-> "GetStringValue", method |-> "GET",
                   path |-> STRINGS_SLASH \o encodeURIComponent(v).val,
                   query |-> NoQuery, body |-> Undefined, value |-> v]
    /\ Serve(request', Now)

DeleteStringValue ==
  \E v \in Values :
    /\ ~encodeURIComponent(v).err
    /\ request' = [op |-> "DeleteStringValue", method |-> "DELETE",
                   path |-> STRINGS_SLASH \o encodeURIComponent(v).val,
                   query |-> NoQuery, body |-> Undefined, value |-> v]
    /\ Serve(request', Now)

GetStrings ==
  \E c \in FewQueryChoices :
    /\ request' = [op |-> "GetStrings", method |-> "GET", path |-> STRINGS,
                   query |-> QueryOf(c), body |-> Undefined]
    /\ Serve(request', Now)

FilterByNaturalLanguage ==
  \E q \in {NoQuery, [query |-> SENTENCE], [query |-> PALINDROM]} :
    /\ request' = [op |-> "FilterByNaturalLanguage", method |-> "GET",
                   path |-> FILTER_BY_NATURAL_LANGUAGE, query |-> q,
                   body |-> Undefined]
    /\ Serve(request', Now)

Health ==
  /\ request' = [op |-> "Health", method |-> "GET", path |-> <<47>>,
                 query |-> NoQuery, body |-> Undefined]
  /\ Serve(request', Now)

\* the process is stopped and started: a new, empty Map, then loadData()
Restart ==
  /\ store' = loadData(file, EmptyMap)
  /\ file' = file
  /\ request' = [op |-> "Restart"]
  /\ response' = Pending

\* the state once the module has run: the data file is missing, or is one a
\* crash cut short, and loadData() has run on the new Map
Init ==
  /\ file \in {NoFile, FileOf(Unparseable)}
  /\ store = loadData(file, EmptyMap)
  /\ request = [op |-> "listen"]
  /\ response = Pending

Next ==
  \/ PostStrings
  \/ GetStringValue
  \/ DeleteStringValue
  \/ GetStrings
  \/ FilterByNaturalLanguage
  \/ Health
  \/ Restart

Spec == Init /\ [][Next]_vars

(***************************************************************************)
(* GET /strings on its own: every store a run of POSTs leaves, then one    *)
(* list request with any combination of the query parameters.              *)
(***************************************************************************)
\* all sequences over S of length at most n
SeqsUpTo(S, n) == UNION {[1..k -> S] : k \in 0..n}

\* the store and the file after the values vs were POSTed in turn to a service
\* started without a data file
RECURSIVE AfterPosts(_)
AfterPosts(vs) ==
  IF vs = <<>> THEN Answer(EmptyMap, NoFile, Pending)
  ELSE postStrings(AfterPosts(SubSeq(vs, 1, Len(vs) - 1)).store,
                   AfterPosts(SubSeq(vs, 1, Len(vs) - 1)).file,
                   [t |-> "object", value |-> Str(vs[Len(vs)])], Now)

InitFilter ==
  /\ \E vs \in SeqsUpTo(Values, MaxRecords) :
       /\ store = AfterPosts(vs).store
       /\ file = AfterPosts(vs).file
  /\ request = [op |-> "listen"]
  /\ response = Pending

GetStringsAny ==
  /\ response = Pending
  /\ \E c \in QueryChoices :
       /\ request' = [op |-> "GetStrings", method |-> "GET", path |-> STRINGS,
                      query |-> QueryOf(c), body |-> Undefined]
       /\ Serve(request', Now)

NextFilter == GetStringsAny

SpecFilter == InitFilter /\ [][NextFilter]_vars

(***************************************************************************)
(* analyzeString on its own.                                               *)
(***************************************************************************)
\* 'r', 'R', 'a', ' ', and the two halves of the surrogate pair of U+1F600
AnalyzeAlphabet == {114, 82, 97, 32, 55357, 56832}

\* 'racecar', 'race car', 'Race Car'
RACECAR == <<114, 97, 99, 101, 99, 97, 114>>

RACE_CAR == <<114, 97, 99, 101, 32, 99, 97, 114>>

RACE_CAR_CAPITALS == <<82, 97, 99, 101, 32, 67, 97, 114>>

AnalyzeInputs ==
  SeqsUpTo(AnalyzeAlphabet, MaxLen) \cup {RACECAR, RACE_CAR, RACE_CAR_CAPITALS}

InitAnalyze ==
  /\ store = EmptyMap
  /\ file = NoFile
  /\ request \in {[op |-> "analyzeString", value |-> s] : s \in AnalyzeInputs}
  /\ response = Pending

Analyze ==
  /\ request.op = "analyzeString"
  /\ response = Pending
  /\ response' = [properties |-> analyzeString(request.value)]
  /\ UNCHANGED <<store, file, request>>

NextAnalyze == Analyze

SpecAnalyze == InitAnalyze /\ [][NextAnalyze]_vars

(***************************************************************************)
(* parseNaturalLanguageQuery on its own.                                   *)
(***************************************************************************)
\* 'strings', 'Palindromic', 'single word', 'longer than 3', 'longer than 12',
\* 'longer than \d', 'containing the letter z', 'containing the letter r',
\* 'first vowel', 'letter z'
Phrases ==
  {<<115, 116, 114, 105, 110, 103, 115>>,
   <<80, 97, 108, 105, 110, 100, 114, 111, 109, 105, 99>>,
   SINGLE_WORD,
   LONGER_THAN \o <<51>>,
   LONGER_THAN \o <<49, 50>>,
   LONGER_THAN \o <<92, 100>>,
   CONTAINING_THE_LETTER \o <<122>>,
   CONTAINING_THE_LETTER \o <<114>>,
   FIRST_VOWEL,
   LETTER_Z}

\* the phrases of ps, one space between two
RECURSIVE JoinWords(_)
JoinWords(ps) ==
  IF ps = <<>> THEN <<>>
  ELSE IF Len(ps) = 1 THEN Head(ps)
  ELSE Head(ps) \o <<32>> \o JoinWords(Tail(ps))

ParseInputs ==
  {JoinWords(ps) : ps \in SeqsUpTo(Phrases, MaxPhrases)} \cup {SENTENCE}

InitParse ==
  /\ store = EmptyMap
  /\ file = NoFile
  /\ request \in {[op |-> "parseNaturalLanguageQuery", query |-> q] :
                    q \in ParseInputs}
  /\ response = Pending

Parse ==
  /\ request.op = "parseNaturalLanguageQuery"
  /\ response = Pending
  /\ response' = [filters |-> parseNaturalLanguageQuery(request.query)]
  /\ UNCHANGED <<store, file, request>>

NextParse == Parse

SpecParse == InitParse /\ [][NextParse]_vars

(***************************************************************************)
(* loadData at startup, on any data file.                                  *)
(***************************************************************************)
RecordOf(value) == NewRecord(value, analyzeString(value), Now)

\* the entries of the lists in the data file: the records of 'r' and '%25',
\* null, a number, and an object without an id
LoadEntries ==
  {RecordOf(<<114>>), RecordOf(<<37, 50, 53>>), Null, Num(7), EmptyObject}

\* no file, a file that is not JSON, JSON that is not a list (null, a number,
\* an object, the string 'rz'), and lists
LoadFiles ==
  {NoFile, FileOf(Unparseable)}
    \cup {FileOf(JSONstringify(d)) :
            d \in {Null, Num(7), EmptyObject, Str(<<114, 122>>)}}
    \cup {FileOf(JSONstringify(Arr(items))) :
            items \in SeqsUpTo(LoadEntries, MaxItems)}

\* const store = new Map(), before loadData() is called
InitLoad ==
  /\ file \in LoadFiles
  /\ store = EmptyMap
  /\ request = [op |-> "loadData"]
  /\ response = Pending

\* loadData() at line 40
Load ==
  /\ request.op = "loadData"
  /\ response = Pending
  /\ store' = loadData(file, store)
  /\ response' = [returned |-> TRUE]
  /\ UNCHANGED <<file, request>>

NextLoad == Load

SpecLoad == InitLoad /\ [][NextLoad]_vars

(***************************************************************************)
(* The claims.                                                             *)
(***************************************************************************)
\* the places in the store m of the records whose value is v
RecordsFor(m, v) ==
  {i \in 1..Len(m) :
     /\ m[i].value.t = "object"
     /\ "value" \in DOMAIN m[i].value
     /\ m[i].value.value = v}

HasRecordFor(m, v) == RecordsFor(m, v) # {}

\* the number a string of decimal digits writes
RECURSIVE DecimalValue(_)
DecimalValue(s) ==
  IF s = <<>> THEN 0
  ELSE 10 * DecimalValue(SubSeq(s, 1, Len(s) - 1)) + (s[Len(s)] - 48)

\* C1: POST /strings with a string value v answers 201 and adds exactly one
\* record for v when the store holds no record for v, answers 409 and adds
\* nothing when it holds one, and the store never holds two records for the
\* same value.
C1_PostCreatesOnceThenConflicts ==
  [][(/\ request'.op = "PostStrings"
      /\ request'.body.t = "object"
      /\ request'.body.value.t = "string")
     => /\ HasRecordFor(store, request'.body.value.s)
             => response'.status = 409 /\ store' = store
        /\ ~HasRecordFor(store, request'.body.value.s)
             => /\ response'.status = 201
                /\ Cardinality(RecordsFor(store', request'.body.value.s)) = 1
                /\ Len(store') = Len(store) + 1
        /\ \A w \in Values : Cardinality(RecordsFor(store', w)) <= 1]_vars

\* C2: restarting the service (a new store, then loadData from the data file)
\* gives a store with exactly the ids the store had just before the restart.
C2_RestartKeepsIds ==
  [][request'.op = "Restart" => MapKeys(store') = MapKeys(store)]_vars

\* a restart of a service that holds records and has written its data file
C2_Witness ==
  /\ request.op = "Restart"
  /\ Len(store) >= 1
  /\ file.exists
  /\ file.text.syntax = "json"

\* C3: GET /strings/{v}, v percent-encoded in the path, answers 200 with the
\* record of v when the store holds one, and 404 when it holds none.
C3_GetAnswersByValue ==
  request.op = "GetStringValue"
    => IF HasRecordFor(store, request.value)
       THEN /\ response.status = 200
            /\ "record" \in DOMAIN response
            /\ response.record.value = request.value
       ELSE response.status = 404

\* C4: DELETE /strings/{v} answers 204 and removes the record of v when the
\* store holds one, and answers 404 and removes nothing when it holds none (so
\* a second DELETE of v answers 404).
C4_DeleteAnswersByValue ==
  [][request'.op = "DeleteStringValue"
     => IF HasRecordFor(store, request'.value)
        THEN response'.status = 204 /\ ~HasRecordFor(store', request'.value)
        ELSE response'.status = 404 /\ store' = store]_vars

\* whether the record r satisfies every filter the query q supplies
Satisfies(r, q) ==
  /\ "is_palindrome" \in DOMAIN q
       => r.properties.is_palindrome
            = (q.is_palindrome \in {<<116, 114, 117, 101>>, <<49>>})
  /\ "min_length" \in DOMAIN q
       => r.properties.length >= DecimalValue(q.min_length)
  /\ "max_length" \in DOMAIN q
       => r.properties.length <= DecimalValue(q.max_length)
  /\ "word_count" \in DOMAIN q
       => r.properties.word_count = DecimalValue(q.word_count)
  /\ "contains_character" \in DOMAIN q
       => /\ q.contains_character \in DOMAIN r.properties.character_frequency_map
          /\ r.properties.character_frequency_map[q.contains_character] > 0

\* the k-th filter of the handler
FilterStep(k, results, q) ==
  CASE k = 1 -> FilterIsPalindrome(results, q)
    [] k = 2 -> FilterMinLength(results, q)
    [] k = 3 -> FilterMaxLength(results, q)
    [] k = 4 -> FilterWordCount(results, q)
    [] k = 5 -> FilterContainsCharacter(results, q)

\* the filters applied in the order p[i], p[i + 1], ..., p[5]
RECURSIVE ApplyInOrder(_, _, _, _)
ApplyInOrder(p, i, results, q) ==
  IF i > 5 THEN results
  ELSE ApplyInOrder(p, i + 1, FilterStep(p[i], results, q), q)

\* the orders the five filters can be applied in
FilterOrders == Permutations(1..5)

Mirrored(a) == \A i \in 1..Len(a) : a[i] = a[Len(a) + 1 - i]

\* C6: analyzeString(s).is_palindrome is true exactly when s, its white space
\* removed and its letters in lower case, is the same sequence of code points
\* read from either end; 'racecar', 'race car' and 'Race Car' are palindromes.
C6_PalindromeIffMirrored ==
  (request.op = "analyzeString" /\ response # Pending)
    => /\ response.properties.is_palindrome
            = Mirrored(CodePoints(toLowerCase(
                SelectSeq(request.value, LAMBDA u : u \notin WhiteSpace))))
       /\ request.value \in {RACECAR, RACE_CAR, RACE_CAR_CAPITALS}
            => response.properties.is_palindrome

\* the analysis of 'Race Car', which holds white space and capital letters
C6_Witness ==
  /\ request.op = "analyzeString"
  /\ response # Pending
  /\ request.value = RACE_CAR_CAPITALS
  /\ response.properties.is_palindrome

\* the places of q where 'longer than ' is followed by a decimal digit
LongerThanPlaces(q) ==
  {i \in 1..Len(q) :
     /\ OccursAt(q, LONGER_THAN, i)
     /\ i + Len(LONGER_THAN) <= Len(q)
     /\ q[i + Len(LONGER_THAN)] >= 48
     /\ q[i + Len(LONGER_THAN)] <= 57}

\* the digits that follow 'longer than ' at place i
RECURSIVE DigitsFrom(_, _)
DigitsFrom(q, k) ==
  IF k <= Len(q) /\ q[k] >= 48 /\ q[k] <= 57
  THEN <<q[k]>> \o DigitsFrom(q, k + 1) ELSE <<>>

\* the number N of the first 'longer than N' of q
LongerThanNumber(q) ==
  DecimalValue(DigitsFrom(q,
    (CHOOSE i \in LongerThanPlaces(q) : \A j \in LongerThanPlaces(q) : i <= j)
      + Len(LONGER_THAN)))

\* C7: parseNaturalLanguageQuery gives min_length = N + 1 to every query that
\* contains 'longer than N'; 'strings longer than 3 containing the letter z'
\* parses to exactly { min_length: 4, contains_character: 'z' }.
C7_LongerThanSetsMinLength ==
  (request.op = "parseNaturalLanguageQuery" /\ response # Pending)
    => /\ LongerThanPlaces(toLowerCase(request.query)) # {}
            => /\ "min_length" \in DOMAIN response.filters
               /\ response.filters.min_length
                    = Num(LongerThanNumber(toLowerCase(request.query)) + 1)
       /\ request.query = SENTENCE
            => response.filters
                 = [min_length |-> Num(4), contains_character |-> <<122>>]

\* C8: GET /strings/filter-by-natural-language is answered by the
\* natural-language handler: 400 without a query, otherwise 200 with the data,
\* the count and the interpreted query.
C8_NaturalLanguageRouteAnswers ==
  request.op = "FilterByNaturalLanguage"
    => response
         = filterByNaturalLanguage(store, file,
                                   QueryParam(request, "query")).response

\* C9: a request answered 400, 404, 409 or 422 leaves the store and the data
\* file as they were.
C9_ErrorsChangeNothing ==
  [][("status" \in DOMAIN response' /\ response'.status \in {400, 404, 409, 422})
     => store' = store /\ file' = file]_vars

\* a POST answered 409 and a DELETE answered 404, each by a service that holds
\* a record
C9_Witness ==
  /\ "status" \in DOMAIN response
  /\ \/ request.op = "PostStrings" /\ response.status = 409
     \/ request.op = "DeleteStringValue" /\ response.status = 404
  /\ store # EmptyMap

\* a record as the service writes it
WellFormedRecord(x) ==
  /\ x.t = "object"
  /\ {"id", "value", "properties", "created_at"} \subseteq DOMAIN x

\* the data file is missing, or is not JSON, or is not a list, or is a list
\* with an entry that is not a record
Corrupt(f) ==
  \/ ~f.exists
  \/ f.text.syntax # "json"
  \/ f.text.doc.t # "array"
  \/ \E i \in 1..Len(f.text.doc.items) : ~WellFormedRecord(f.text.doc.items[i])

\* C10: loadData returns, and leaves the store empty whenever the data file is
\* missing or corrupt.
C10_CorruptFileLoadsEmpty ==
  (request.op = "loadData" /\ response # Pending /\ Corrupt(file))
    => store = EmptyMap

====
